---- MODULE Spec2Model ----
(***************************************************************************)
(* Model of src/screens/FeedScreen.js: the FeedScreen component (feed      *)
(* fetch, viewability callback) and the VideoCard component (playback      *)
(* effect, focus effect, user fetch, like-status lookup, handleLike,       *)
(* handleDoubleTap, comments modal).                                        *)
(*                                                                         *)
(* React state setters called in one handler are committed together and    *)
(* the component re-renders before the next event is dispatched, so every  *)
(* handler is one action.  A handler that awaits a remote call is split at *)
(* the await: the part before it is one action, the continuation another,  *)
(* and the continuation keeps the values its closure captured.             *)
(***************************************************************************)
EXTENDS Integers, Sequences, FiniteSets, TLC

\* ---------------------------------------------------------------- bounds
NVideos == 2        \* posts the feed query can return
MaxCmds == 2        \* play/pause commands in flight per player
MaxViewable == 2    \* view tokens in one viewability callback
MaxSeed == 1        \* largest like_count a fetched post carries
MaxToggles == 3     \* like toggles carried out in one run
MaxInFlight == 2     \* like/unlike requests in flight per card
MaxComments == 2    \* comment announcements counted by one card

\* ------------------------------------------------------------- constants
NoIndex == -1       \* a view token whose index is null/undefined
NoUser == 0         \* currentUserId === null
UserA == 1          \* the signed-in user's id

Cards == 0 .. (NVideos - 1)
Seeds == 0 .. MaxSeed
Users == {NoUser, UserA}

VARIABLES
    \* FeedScreen
    loading,            \* useState(true)
    videos,             \* number of items of the videos array (item i has id i)
    currentVideoIndex,  \* useState(0)
    focused,            \* the navigation focus of the screen
    fetched,            \* fetchVideos: "pending", "ok", "error", "throw"
    crashed,            \* an error was thrown while rendering: the tree is gone
    alert,              \* the last Alert.alert shown
    \* the cards of the list
    detached,           \* cards the list has unmounted
    channels,           \* channels[p]: open channels public:comments:p
    \* media players, one per mounted card
    playing,            \* playing[i]: "Playing" or "Paused"
    cmds,               \* cmds[i]: playAsync/pauseAsync calls not yet settled
    \* VideoCard state, one per mounted card
    userReq,            \* supabase.auth.getUser(): "none", "pending", "done"
    currentUserId,
    lookup,             \* the post_likes lookup: "none","sent",<result>,"done"
    hasLiked,
    renderedLiked,      \* the hasLiked of the last render (what handlers see)
    localLikeCount,
    localCommentCount,
    isCommentsModalVisible,
    requests,           \* requests[i]: pending handleLike continuations
    toggles,            \* number of toggles carried out so far
    \* remote store
    session,            \* whom supabase.auth.getUser() returns
    seed,               \* posts.like_count of post i
    store,              \* store[i]: a post_likes row (session, i) exists
    remoteLikeCount,    \* seed[i] plus rows inserted minus rows deleted
    \* history
    everViewable,       \* a viewability callback has carried a view token
    resumed,            \* focus came back and the active index is as it was
    lastOk,             \* lastOk[i]: the pre-toggle values of a toggle that
                        \* ran alone and has just settled successfully
    lastViewable,       \* << >>, or <<Summary(viewableItems)>> of the last callback
    lastComment,        \* << >>, or <<[post, delivered]>> of the last event
    lastLookup          \* lastLookup[i]: the lookup result last handled

vars == <<loading, videos, currentVideoIndex, focused, fetched, crashed, alert,
          detached, channels, playing, cmds, userReq, currentUserId, lookup,
          hasLiked, renderedLiked, localLikeCount, localCommentCount,
          isCommentsModalVisible, requests, toggles, session, seed, store,
          remoteLikeCount, everViewable, resumed, lastOk, lastViewable,
          lastComment, lastLookup>>

screenVars == <<loading, videos, currentVideoIndex, focused, fetched>>
mountVars == <<detached, channels>>
playerVars == <<playing, cmds>>
cardVars == <<userReq, currentUserId, lookup, hasLiked, renderedLiked,
              localLikeCount, localCommentCount, isCommentsModalVisible,
              requests, toggles>>
remoteVars == <<session, seed, store, remoteLikeCount>>
logVars == <<lastViewable, lastComment, lastLookup>>
historyVars == <<everViewable, resumed, lastOk, logVars>>

None == [none |-> TRUE]

Mounted(i) == ~loading /\ ~crashed /\ i < videos /\ i \notin detached

\* ------------------------------------------------------------ FeedScreen
InitialIndex == 0

Init ==
    /\ loading = TRUE
    /\ videos = 0
    /\ currentVideoIndex = InitialIndex
    /\ focused = TRUE
    /\ fetched = "pending"
    /\ detached = {}
    /\ channels = [p \in Cards |-> 0]
    /\ crashed = FALSE
    /\ alert = "none"
    /\ playing = [i \in Cards |-> "Paused"]
    /\ cmds = [i \in Cards |-> << >>]
    /\ userReq = [i \in Cards |-> "none"]
    /\ currentUserId = [i \in Cards |-> NoUser]
    /\ lookup = [i \in Cards |-> "none"]
    /\ hasLiked = [i \in Cards |-> FALSE]
    /\ renderedLiked = [i \in Cards |-> FALSE]
    /\ localLikeCount = [i \in Cards |-> 0]
    /\ localCommentCount = [i \in Cards |-> 0]
    /\ isCommentsModalVisible = [i \in Cards |-> FALSE]
    /\ requests = [i \in Cards |-> << >>]
    /\ toggles = 0
    /\ session \in Users
    /\ seed \in [Cards -> Seeds]
    /\ store \in [Cards -> BOOLEAN]
    /\ \A i \in Cards : store[i] => (session # NoUser /\ seed[i] >= 1)
    /\ remoteLikeCount = seed
    /\ everViewable = FALSE
    /\ resumed = FALSE
    /\ lastOk = [i \in Cards |-> None]
    /\ lastViewable = << >>
    /\ lastComment = << >>
    /\ lastLookup = [i \in Cards |-> "none"]

PlaybackEffectInverted(index, current) == IF index = current THEN "pause" ELSE "play"

\* The playback effect of a card: the command it sends to its player.
PlaybackEffect(index, current) == IF index = current THEN "play" ELSE "pause"

\* The playback effect of every mounted card (index below n) runs.
RunPlaybackEffects(n, current) ==
    [i \in Cards |->
        IF i < n /\ i \notin detached
        THEN Append(cmds[i], PlaybackEffect(i, current))
        ELSE cmds[i]]

\* The focus-effect cleanup of every mounted card (index below n) runs.
RunFocusCleanups(n) ==
    [i \in Cards |->
        IF i < n /\ i \notin detached THEN Append(cmds[i], "pause") ELSE cmds[i]]

CanIssue(n) ==
    \A i \in Cards : (i < n /\ i \notin detached) => Len(cmds[i]) < MaxCmds

\* useState(item.like_count || 0): a falsy count starts the card at 0.
InitialLikeCount(likeCount) == IF likeCount = 0 THEN 0 ELSE likeCount

\* Does rendering a feed of n posts end in a fault?  The empty branch
\* renders <Text>, a name the import of line 4 does not bind; only the
\* import of line 124, which opens the VideoCard half of the file, binds
\* it.  Both outcomes are kept.
RenderFaults(n) == IF n = 0 THEN {FALSE, TRUE} ELSE {FALSE}

\* The comments effect of a card: one channel for its post is subscribed.
Subscribe(open) == open + 1

\* fetchVideos resolves with n posts: the list renders and its cards mount.
\* Mounting a card runs its effects: fetchUser starts, the comments channel
\* is subscribed, and the playback effect sends the card's first command.
FetchVideosOk(n) ==
    /\ fetched = "pending" /\ ~crashed
    /\ fetched' = "ok"
    /\ loading' = FALSE
    /\ videos' = n
    /\ channels' = [p \in Cards |-> IF p < n THEN Subscribe(channels[p]) ELSE channels[p]]
    /\ cmds' = RunPlaybackEffects(n, currentVideoIndex)
    /\ userReq' = [i \in Cards |-> IF i < n THEN "pending" ELSE "none"]
    /\ localLikeCount' = [i \in Cards |-> IF i < n THEN InitialLikeCount(seed[i]) ELSE 0]
    /\ crashed' \in RenderFaults(n)
    /\ UNCHANGED <<currentVideoIndex, focused, alert, detached, playing,
                   currentUserId, lookup, hasLiked, renderedLiked,
                   localCommentCount, isCommentsModalVisible, requests, toggles>>
    /\ UNCHANGED <<remoteVars, historyVars>>

\* fetchVideos resolves with an error: videos stays [] and loading ends.
FetchVideosError ==
    /\ fetched = "pending" /\ ~crashed
    /\ fetched' = "error"
    /\ loading' = FALSE
    /\ crashed' \in RenderFaults(videos)
    /\ UNCHANGED <<videos, currentVideoIndex, focused, alert>>
    /\ UNCHANGED <<mountVars, playerVars, cardVars, remoteVars, historyVars>>

\* The awaited query rejects: fetchVideos has no try/catch, so the rest of
\* it (setVideos, setLoading(false)) never runs.
FetchVideosThrow ==
    /\ fetched = "pending" /\ ~crashed
    /\ fetched' = "throw"
    /\ UNCHANGED <<loading, videos, currentVideoIndex, focused, crashed, alert>>
    /\ UNCHANGED <<mountVars, playerVars, cardVars, remoteVars, historyVars>>

FirstVisibleIndexLast(viewableItems) ==
    IF Len(viewableItems) > 0 /\ viewableItems[Len(viewableItems)] # NoIndex
    THEN viewableItems[Len(viewableItems)]
    ELSE currentVideoIndex

FirstVisibleIndexReset(viewableItems) ==
    IF Len(viewableItems) > 0 /\ viewableItems[1] # NoIndex
    THEN viewableItems[1]
    ELSE InitialIndex

\* The index the viewability callback stores for the tokens it is given.
FirstVisibleIndex(viewableItems) ==
    IF Len(viewableItems) > 0 /\ viewableItems[1] # NoIndex
    THEN viewableItems[1]
    ELSE currentVideoIndex

\* The indices a list of view tokens carries.
IndicesOf(viewableItems) ==
    {viewableItems[k] : k \in DOMAIN viewableItems} \ {NoIndex}

Lowest(S) == CHOOSE x \in S : \A y \in S : x <= y

\* What is remembered of a callback's list: its length, the index of its
\* first item and the lowest index it carries (NoIndex where there is none).
Summary(viewableItems) ==
    [len |-> Len(viewableItems),
     first |-> IF Len(viewableItems) > 0 THEN viewableItems[1] ELSE NoIndex,
     lowest |-> IF IndicesOf(viewableItems) # {}
                THEN Lowest(IndicesOf(viewableItems)) ELSE NoIndex]

ViewableItems(n) ==
    UNION {[1 .. len -> (0 .. (n - 1)) \cup {NoIndex}] : len \in 0 .. MaxViewable}

\* onViewableItemsChanged (the list scrolls only while its screen is in
\* front).  An unchanged index re-renders nothing; a changed index
\* re-renders the list and the playback effect of every mounted card runs
\* again.
OnViewableItemsChanged(viewableItems) ==
    /\ ~loading /\ ~crashed /\ videos > 0 /\ focused
    /\ LET new == FirstVisibleIndex(viewableItems) IN
        /\ currentVideoIndex' = new
        /\ IF new # currentVideoIndex
           THEN /\ CanIssue(videos)
                /\ cmds' = RunPlaybackEffects(videos, new)
                /\ resumed' = FALSE
           ELSE UNCHANGED <<cmds, resumed>>
    /\ everViewable' = (everViewable \/ Len(viewableItems) > 0)
    /\ lastViewable' = <<Summary(viewableItems)>>
    /\ UNCHANGED <<loading, videos, focused, fetched, crashed, alert, playing,
                   lastOk, lastComment, lastLookup>>
    /\ UNCHANGED <<mountVars, cardVars, remoteVars>>

\* The screen loses focus: the cleanup of every card's focus effect runs.
Blur ==
    /\ focused /\ ~crashed
    /\ focused' = FALSE
    /\ resumed' = FALSE
    /\ IF loading
       THEN UNCHANGED cmds
       ELSE /\ CanIssue(videos)
            /\ cmds' = RunFocusCleanups(videos)
    /\ UNCHANGED <<loading, videos, currentVideoIndex, fetched, crashed, alert,
                   playing, everViewable, lastOk, logVars>>
    /\ UNCHANGED <<mountVars, cardVars, remoteVars>>

\* The screen regains focus: the focus effect runs and only returns its cleanup.
Focus ==
    /\ ~focused /\ ~crashed
    /\ focused' = TRUE
    /\ resumed' = TRUE
    /\ UNCHANGED <<loading, videos, currentVideoIndex, fetched, crashed, alert,
                   everViewable, lastOk, logVars>>
    /\ UNCHANGED <<mountVars, playerVars, cardVars, remoteVars>>

\* The state of a player once the command `c` has settled.
Settled(state, c, ok) ==
    IF ok THEN (IF c = "play" THEN "Playing" ELSE "Paused") ELSE state

\* The oldest command of player i settles; a rejection is only logged.
CompleteCmd(i, ok) ==
    /\ Mounted(i) /\ Len(cmds[i]) > 0
    /\ playing' = [playing EXCEPT ![i] = Settled(playing[i], Head(cmds[i]), ok)]
    /\ cmds' = [cmds EXCEPT ![i] = Tail(cmds[i])]
    /\ UNCHANGED <<screenVars, crashed, alert>>
    /\ UNCHANGED <<mountVars, cardVars, remoteVars, historyVars>>

PlayerStep == \E i \in Cards, ok \in BOOLEAN : CompleteCmd(i, ok)

ViewabilityStep == \E v \in ViewableItems(videos) : OnViewableItemsChanged(v)

FetchStep ==
    (\E n \in 0 .. NVideos : FetchVideosOk(n)) \/ FetchVideosError \/ FetchVideosThrow

\* ------------------------------------------------------------- VideoCard
\* What supabase.auth.getUser() can resolve with: the session's user, or a
\* rejection (caught and logged).
UserOutcomes == {IF session # NoUser THEN "user" ELSE "none", "throw"}

\* fetchUser continues.  Setting currentUserId re-renders the card, and the
\* effect on [currentUserId, fetchUserLikeStatus] starts the lookup.
FetchUserResponse(i, outcome) ==
    /\ Mounted(i) /\ userReq[i] = "pending"
    /\ userReq' = [userReq EXCEPT ![i] = "done"]
    /\ outcome \in UserOutcomes
    /\ IF outcome = "user"
       THEN /\ currentUserId' = [currentUserId EXCEPT ![i] = session]
            /\ lookup' = [lookup EXCEPT ![i] = "sent"]
       ELSE UNCHANGED <<currentUserId, lookup>>
    /\ UNCHANGED <<screenVars, crashed, alert, hasLiked, renderedLiked,
                   localLikeCount, localCommentCount, isCommentsModalVisible,
                   requests, toggles>>
    /\ UNCHANGED <<mountVars, playerVars, remoteVars, historyVars>>

\* What the lookup .single() can resolve with, given the rows of the store.
LookupResults(hasRow) ==
    {IF hasRow THEN "found" ELSE "PGRST116", "error", "throw"}

\* The remote store answers the lookup of card i.
LookupServe(i, result) ==
    /\ Mounted(i) /\ lookup[i] = "sent"
    /\ result \in LookupResults(store[i])
    /\ lookup' = [lookup EXCEPT ![i] = result]
    /\ UNCHANGED <<screenVars, crashed, alert, userReq, currentUserId, hasLiked,
                   renderedLiked, localLikeCount, localCommentCount,
                   isCommentsModalVisible, requests, toggles>>
    /\ UNCHANGED <<mountVars, playerVars, remoteVars, historyVars>>

LikeStatusDefault(current, result) ==
    CASE result = "found" -> TRUE
      [] result = "PGRST116" -> FALSE
      [] OTHER -> FALSE

\* hasLiked after fetchUserLikeStatus has handled `result`.
LikeStatus(current, result) ==
    CASE result = "found" -> TRUE
      [] result = "PGRST116" -> FALSE
      [] OTHER -> current

\* fetchUserLikeStatus continues with the answer.
LookupResponse(i) ==
    /\ Mounted(i) /\ lookup[i] \in {"found", "PGRST116", "error", "throw"}
    /\ hasLiked' = [hasLiked EXCEPT ![i] = LikeStatus(hasLiked[i], lookup[i])]
    /\ renderedLiked' = [renderedLiked EXCEPT ![i] = hasLiked'[i]]
    /\ lookup' = [lookup EXCEPT ![i] = "done"]
    /\ lastLookup' = [lastLookup EXCEPT ![i] = lookup[i]]
    /\ UNCHANGED <<screenVars, crashed, alert, userReq, currentUserId,
                   localLikeCount, localCommentCount, isCommentsModalVisible,
                   requests, toggles>>
    /\ UNCHANGED <<mountVars, playerVars, remoteVars, everViewable, resumed,
                   lastOk, lastViewable, lastComment>>

IsLoggedInAlways(userId) == TRUE

\* handleLike's first check: is there a current user?
IsLoggedIn(userId) == userId # NoUser

\* May handleLike go on to the optimistic update?
MayToggle(i) == IsLoggedIn(currentUserId[i])

\* The optimistic change of localLikeCount, from the hasLiked of the render.
OptimisticDelta(liked) == IF liked THEN -1 ELSE 1

\* The revert of localLikeCount after an error value, by the branch taken.
RevertDelta(liked) == IF liked THEN 1 ELSE -1

\* handleLike up to its await, as the closure of the last render runs it:
\* the flip is a functional updater on the state itself, while the count
\* delta and the branch taken read the render's hasLiked.  The request keeps
\* that value in `liked`; `live` says that the instance that sent it is
\* still mounted; preCount and alone are history (the count before the
\* toggle, and whether no other toggle of the card has overlapped this one).
HandleLikeCall(i) ==
    /\ Mounted(i)
    /\ IF ~MayToggle(i)
       THEN /\ alert' = "Login Required"
            /\ UNCHANGED <<hasLiked, localLikeCount, requests, toggles, lastOk>>
       ELSE /\ toggles < MaxToggles /\ Len(requests[i]) < MaxInFlight
            /\ hasLiked' = [hasLiked EXCEPT ![i] = ~hasLiked[i]]
            /\ localLikeCount' = [localLikeCount EXCEPT
                   ![i] = localLikeCount[i] + OptimisticDelta(renderedLiked[i])]
            /\ requests' = [requests EXCEPT ![i] =
                   Append([k \in DOMAIN requests[i] |->
                              [requests[i][k] EXCEPT !.alone = FALSE]],
                          [liked |-> renderedLiked[i],
                           live |-> TRUE,
                           preCount |-> localLikeCount[i],
                           alone |-> requests[i] = << >>])]
            /\ toggles' = toggles + 1
            /\ lastOk' = [lastOk EXCEPT ![i] = None]
            /\ UNCHANGED alert
    /\ UNCHANGED <<screenVars, crashed, userReq, currentUserId, lookup,
                   localCommentCount, isCommentsModalVisible>>
    /\ UNCHANGED <<mountVars, playerVars, remoteVars, everViewable, resumed,
                   logVars>>

\* handleLike, and the re-render that its state updates cause.
HandleLike(i) ==
    /\ HandleLikeCall(i)
    /\ renderedLiked' = [renderedLiked EXCEPT ![i] = hasLiked'[i]]

\* handleLike called from a batch of events: the re-render that its state
\* updates schedule comes after the batch, so a later call of the same
\* batch runs the same closure.
HandleLikeBatched(i) ==
    /\ HandleLikeCall(i)
    /\ UNCHANGED renderedLiked

\* The re-render of card i: its handlers now close over the current state.
Render(i) ==
    /\ Mounted(i) /\ renderedLiked[i] # hasLiked[i]
    /\ renderedLiked' = [renderedLiked EXCEPT ![i] = hasLiked[i]]
    /\ UNCHANGED <<screenVars, crashed, alert, userReq, currentUserId, lookup,
                   hasLiked, localLikeCount, localCommentCount,
                   isCommentsModalVisible, requests, toggles>>
    /\ UNCHANGED <<mountVars, playerVars, remoteVars, historyVars>>

\* handleDoubleTap: the heart animates, and handleLike runs if the modal is
\* closed and the post is not liked in this render.
HandleDoubleTap(i) ==
    /\ Mounted(i)
    /\ IF ~isCommentsModalVisible[i] /\ ~renderedLiked[i]
       THEN HandleLike(i)
       ELSE UNCHANGED vars

HandleComment(i) ==
    /\ Mounted(i)
    /\ isCommentsModalVisible' = [isCommentsModalVisible EXCEPT ![i] = TRUE]
    /\ UNCHANGED <<screenVars, crashed, alert, userReq, currentUserId, lookup,
                   hasLiked, renderedLiked, localLikeCount, localCommentCount,
                   requests, toggles>>
    /\ UNCHANGED <<mountVars, playerVars, remoteVars, historyVars>>

\* CommentsModal's onClose.
CloseCommentsModal(i) ==
    /\ Mounted(i) /\ isCommentsModalVisible[i]
    /\ isCommentsModalVisible' = [isCommentsModalVisible EXCEPT ![i] = FALSE]
    /\ UNCHANGED <<screenVars, crashed, alert, userReq, currentUserId, lookup,
                   hasLiked, renderedLiked, localLikeCount, localCommentCount,
                   requests, toggles>>
    /\ UNCHANGED <<mountVars, playerVars, remoteVars, historyVars>>

RemoveAt(s, k) == [j \in 1 .. (Len(s) - 1) |-> IF j < k THEN s[j] ELSE s[j + 1]]

\* What the awaited insert/delete can resolve with.  post_likes is keyed by
\* (user_id, post_id): an insert succeeds only where no row exists; a delete
\* succeeds whether or not it finds a row.
LikeOutcomes(liked, hasRow) ==
    IF liked \/ ~hasRow THEN {"ok", "error", "throw"} ELSE {"error", "throw"}

AppliesAlways(live) == TRUE

\* Do the state updates of a response reach a mounted instance?
AppliesTo(live) == live

\* handleLike after its await, for the k-th pending request of card i
\* (requests on the wire resolve in any order).
\* "ok": nothing more.  "error": the branch's revert.  "throw": the catch
\* block, whose localLikeCount updater reads the undeclared name `prev`;
\* React runs the updater while rendering, the ReferenceError is not caught
\* by any boundary, and the tree is torn down.
\* A request whose instance has unmounted (live = FALSE) still reaches the
\* store and still alerts, but its state updates go to an unmounted
\* instance, where React drops them.
LikeResponse(i, k, outcome) ==
    /\ ~crashed /\ k \in DOMAIN requests[i]
    /\ LET r == requests[i][k] IN
        /\ outcome \in LikeOutcomes(r.liked, store[i])
        /\ requests' = [requests EXCEPT ![i] = RemoveAt(requests[i], k)]
        /\ IF outcome = "ok"
           THEN /\ store' = [store EXCEPT ![i] = ~r.liked]
                /\ remoteLikeCount' = [remoteLikeCount EXCEPT ![i] =
                       remoteLikeCount[i]
                         + (IF ~r.liked THEN 1 ELSE IF store[i] THEN -1 ELSE 0)]
                /\ lastOk' = [lastOk EXCEPT ![i] =
                       IF r.alone /\ r.live
                       THEN [liked |-> r.liked, preCount |-> r.preCount]
                       ELSE None]
                /\ UNCHANGED <<hasLiked, localLikeCount, alert, crashed>>
           ELSE /\ UNCHANGED <<store, remoteLikeCount>>
                /\ lastOk' = [lastOk EXCEPT ![i] = None]
                /\ alert' = "Error"
                /\ IF ~AppliesTo(r.live)
                   THEN UNCHANGED <<hasLiked, localLikeCount, crashed>>
                   ELSE IF outcome = "error"
                   THEN /\ hasLiked' = [hasLiked EXCEPT ![i] = ~hasLiked[i]]
                        /\ localLikeCount' = [localLikeCount EXCEPT
                               ![i] = localLikeCount[i] + RevertDelta(r.liked)]
                        /\ UNCHANGED crashed
                   ELSE /\ crashed' = TRUE
                        /\ UNCHANGED <<hasLiked, localLikeCount>>
    /\ renderedLiked' = [renderedLiked EXCEPT ![i] = hasLiked'[i]]
    /\ channels' = IF crashed' THEN [p \in Cards |-> 0] ELSE channels
    /\ UNCHANGED <<screenVars, userReq, currentUserId, lookup,
                   localCommentCount, isCommentsModalVisible, toggles>>
    /\ UNCHANGED <<detached, playerVars, session, seed, everViewable, resumed,
                   logVars>>

RemoveChannelNever(open) == open

\* The cleanup of the comments effect: supabase.removeChannel.
RemoveChannel(open) == open - 1

\* The list unmounts card i.  The cleanup of the comments effect removes
\* the channel; the player goes away with the Video element; the requests
\* on the wire stay there, and their continuations now belong to an
\* unmounted instance.  No cleanup touches them.
Unmount(i) ==
    /\ Mounted(i)
    /\ detached' = detached \cup {i}
    /\ channels' = [channels EXCEPT ![i] = RemoveChannel(channels[i])]
    /\ requests' = [requests EXCEPT ![i] =
           [k \in DOMAIN requests[i] |->
               [requests[i][k] EXCEPT !.live = FALSE, !.alone = FALSE]]]
    /\ cmds' = [cmds EXCEPT ![i] = << >>]
    /\ playing' = [playing EXCEPT ![i] = "Paused"]
    /\ UNCHANGED <<screenVars, crashed, alert, userReq, currentUserId, lookup,
                   hasLiked, renderedLiked, localLikeCount, localCommentCount,
                   isCommentsModalVisible, toggles>>
    /\ UNCHANGED <<remoteVars, historyVars>>

\* The list mounts card i again: a new instance with the initial state of
\* its useState calls, whose effects run as on the first mount.
Remount(i) ==
    /\ ~loading /\ ~crashed /\ i \in detached
    /\ detached' = detached \ {i}
    /\ channels' = [channels EXCEPT ![i] = Subscribe(channels[i])]
    /\ cmds' = [cmds EXCEPT ![i] = <<PlaybackEffect(i, currentVideoIndex)>>]
    /\ userReq' = [userReq EXCEPT ![i] = "pending"]
    /\ currentUserId' = [currentUserId EXCEPT ![i] = NoUser]
    /\ lookup' = [lookup EXCEPT ![i] = "none"]
    /\ hasLiked' = [hasLiked EXCEPT ![i] = FALSE]
    /\ renderedLiked' = [renderedLiked EXCEPT ![i] = FALSE]
    /\ localLikeCount' = [localLikeCount EXCEPT ![i] = InitialLikeCount(seed[i])]
    /\ localCommentCount' = [localCommentCount EXCEPT ![i] = 0]
    /\ isCommentsModalVisible' = [isCommentsModalVisible EXCEPT ![i] = FALSE]
    /\ lastOk' = [lastOk EXCEPT ![i] = None]
    /\ lastLookup' = [lastLookup EXCEPT ![i] = "none"]
    /\ UNCHANGED <<screenVars, crashed, alert, playing, requests, toggles>>
    /\ UNCHANGED <<remoteVars, everViewable, resumed, lastViewable, lastComment>>

OnCommentInsertTwice(prev) == prev + 2

\* The INSERT handler of the comments channel: prev => prev + 1.
OnCommentInsert(prev) == prev + 1

RECURSIVE RunHandlers(_, _)
\* The count after each of `open` channels has run its handler once.
RunHandlers(open, count) ==
    IF open = 0 THEN count ELSE RunHandlers(open - 1, OnCommentInsert(count))

\* The realtime service announces a comment inserted for post p.  Every
\* open channel of p runs its handler; the update reaches the card if it is
\* mounted.  An announcement for a post without a channel reaches nobody.
CommentInserted(p) ==
    /\ ~crashed /\ fetched = "ok"
    /\ lastComment' = <<[post |-> p, mounted |-> Mounted(p)]>>
    /\ IF Mounted(p)
       THEN /\ localCommentCount[p] < MaxComments
            /\ localCommentCount' = [localCommentCount EXCEPT
                   ![p] = RunHandlers(channels[p], localCommentCount[p])]
       ELSE UNCHANGED localCommentCount
    /\ UNCHANGED <<screenVars, crashed, alert, userReq, currentUserId, lookup,
                   hasLiked, renderedLiked, localLikeCount,
                   isCommentsModalVisible, requests, toggles>>
    /\ UNCHANGED <<mountVars, playerVars, remoteVars, everViewable, resumed,
                   lastOk, lastViewable, lastLookup>>

UserStep ==
    \E i \in Cards : \E o \in {"user", "none", "throw"} : FetchUserResponse(i, o)

LookupStep ==
    \E i \in Cards :
        \/ \E res \in {"found", "PGRST116", "error", "throw"} : LookupServe(i, res)
        \/ LookupResponse(i)

LikeStep == \E i \in Cards : HandleLike(i) \/ HandleDoubleTap(i)

ModalStep == \E i \in Cards : HandleComment(i) \/ CloseCommentsModal(i)

LikeResponseStep ==
    \E i \in Cards : \E k \in 1 .. MaxInFlight :
        \E o \in {"ok", "error", "throw"} : LikeResponse(i, k, o)

\* -------------------------------------------------------- specifications
\* Playback: the feed, the viewability callback, focus and the players.
InitPlayback == Init /\ session = NoUser /\ seed = [i \in Cards |-> 0]

NextPlayback == FetchStep \/ ViewabilityStep \/ Blur \/ Focus \/ PlayerStep

SpecPlayback == InitPlayback /\ [][NextPlayback]_vars

\* Playback with players that reject no command.
PlayerOkStep == \E i \in Cards : CompleteCmd(i, TRUE)

NextPlaybackOk == FetchStep \/ ViewabilityStep \/ Blur \/ Focus \/ PlayerOkStep

SpecPlaybackOk == InitPlayback /\ [][NextPlaybackOk]_vars

\* Engagement: the user, like status and like toggles of a card, on a feed
\* of one post (everything a card holds is local to it, and the rows of
\* post_likes it reads and writes are those of its own post).
InitEngagement == Init /\ \A i \in Cards : i > 0 => (seed[i] = 0 /\ ~store[i])

FetchOne == FetchVideosOk(1) \/ FetchVideosError \/ FetchVideosThrow

NextEngagement ==
    FetchOne \/ UserStep \/ LookupStep \/ LikeStep \/ ModalStep \/ LikeResponseStep

SpecEngagement == InitEngagement /\ [][NextEngagement]_vars

\* Engagement on a feed of one post when taps can arrive in one batch of
\* events: a call of handleLike and the re-render it schedules are separate
\* steps.
BatchedLikeStep == \E i \in Cards : HandleLikeBatched(i)

RenderStep == \E i \in Cards : Render(i)

NextBatched ==
    FetchOne \/ UserStep \/ LookupStep \/ BatchedLikeStep \/ RenderStep
        \/ LikeResponseStep

SpecBatched == InitEngagement /\ [][NextBatched]_vars

\* The life of the card of a feed of one post: it unmounts and mounts
\* again while likes are on the wire and comments are announced, for its
\* own post and for a post that has no card.
MountStep == \E i \in Cards : Unmount(i) \/ Remount(i)

CommentStep == \E p \in Cards : CommentInserted(p)

NextLifecycle ==
    FetchOne \/ UserStep \/ LikeStep \/ LikeResponseStep \/ MountStep
        \/ CommentStep

SpecLifecycle == InitEngagement /\ [][NextLifecycle]_vars

\* ------------------------------------------------------------ properties
PlayingCards == {i \in Cards : playing[i] = "Playing"}

IssuedPlay(i) == \E k \in DOMAIN cmds[i] : cmds[i][k] = "play"

Quiet == \A i \in Cards : cmds[i] = << >>

Abs(x) == IF x < 0 THEN -x ELSE x

\* C1: at most one card is Playing in every reachable state, whatever the
\* viewability callbacks, focus changes and command outcomes.
C1_AtMostOnePlaying == Cardinality(PlayingCards) <= 1

\* C2: when a like/unlike request resolves with an error, the handled
\* failure leaves hasLiked and localLikeCount at the values they had just
\* before that toggle, and no request of the card pending.
C2_RollbackRestores ==
    [][\A i \in Cards : \A k \in DOMAIN requests[i] :
          LikeResponse(i, k, "error") =>
              /\ hasLiked'[i] = requests[i][k].liked
              /\ localLikeCount'[i] = requests[i][k].preCount
              /\ requests'[i] = << >>]_vars

\* C3: a like toggle (button or double tap) invoked while a request of the
\* card is in flight changes neither hasLiked nor localLikeCount and sends
\* no request.
C3_PendingToggleIsNoOp ==
    [][\A i \in Cards :
          ((HandleLike(i) \/ HandleDoubleTap(i)) /\ requests[i] # << >>) =>
              /\ hasLiked'[i] = hasLiked[i]
              /\ localLikeCount'[i] = localLikeCount[i]
              /\ requests'[i] = requests[i]]_vars

\* C4: every post has at most one like/unlike request in flight.
C4_OneInFlight == \A i \in Cards : Len(requests[i]) <= 1

\* C5 (its second half): once focus has come back with the active index as
\* it was and every command has settled (none rejected), the card at the
\* active index is Playing.
C5_ActivePlaysAfterFocus ==
    (focused /\ resumed /\ Mounted(currentVideoIndex) /\ Quiet)
        => playing[currentVideoIndex] = "Playing"

\* C6 as written: while no viewability callback has carried a view token,
\* the active index is none and no card is Playing or sent a play command.
C6_NoneUntilViewable ==
    ~everViewable =>
        /\ currentVideoIndex = NoIndex
        /\ \A i \in Cards : playing[i] = "Paused" /\ ~IssuedPlay(i)

\* C6 amended: while no viewability callback has carried a view token, the
\* active index is 0 and every card but card 0 is Paused and has been sent
\* no play command.
C6_ZeroUntilViewable ==
    ~everViewable =>
        /\ currentVideoIndex = 0
        /\ \A i \in Cards : i # 0 => (playing[i] = "Paused" /\ ~IssuedPlay(i))

\* C6 witness: the whole feed is rendered, nothing was reported viewable,
\* and card 0 plays while the others are paused with nothing in flight.
C6_Witness ==
    /\ ~everViewable /\ ~loading /\ videos = NVideos /\ Quiet
    /\ playing[0] = "Playing"

\* C7: localLikeCount is never negative.
C7_NonNegative == \A i \in Cards : localLikeCount[i] >= 0

\* C8: a toggle invoked after the previous toggle of the card ran alone and
\* settled successfully puts hasLiked and localLikeCount back to the values
\* they had before that previous toggle.
C8_TwoTogglesRestore ==
    [][\A i \in Cards :
          (HandleLike(i) /\ lastOk[i] # None /\ requests[i] = << >>) =>
              /\ hasLiked'[i] = lastOk[i].liked
              /\ localLikeCount'[i] = lastOk[i].preCount]_vars

\* C9: the displayed like count of a card is within 1 of the seed count
\* plus the rows this user inserted minus the rows this user deleted.
C9_WithinOne ==
    \A i \in Cards : Mounted(i) => Abs(localLikeCount[i] - remoteLikeCount[i]) <= 1

\* C10: handleLike with no current user changes neither hasLiked nor
\* localLikeCount, sends no insert or delete, and shows the login notice.
C10_NoUserNoToggle ==
    [][\A i \in Cards :
          (HandleLike(i) /\ currentUserId[i] = NoUser) =>
              /\ hasLiked' = hasLiked
              /\ localLikeCount' = localLikeCount
              /\ requests' = requests
              /\ store' = store /\ remoteLikeCount' = remoteLikeCount
              /\ alert' = "Login Required"]_vars

\* C10 witness: the login notice is up on a mounted card without a user.
C10_Witness ==
    /\ alert = "Login Required"
    /\ \E i \in Cards : Mounted(i) /\ currentUserId[i] = NoUser /\ userReq[i] = "done"

\* C11 as stated: after an observation with at least one item that has an
\* index, currentVideoIndex is the lowest index among its items, whatever
\* their order.
C11_LowestOfObservation ==
    (lastViewable # << >> /\ lastViewable[1].lowest # NoIndex) =>
        currentVideoIndex = lastViewable[1].lowest

\* C11 amended: after an observation whose first item has an index,
\* currentVideoIndex is the index of that first item (which is the lowest
\* index whenever the items come in ascending order).
C11_FirstOfObservation ==
    (lastViewable # << >> /\ lastViewable[1].first # NoIndex) =>
        currentVideoIndex = lastViewable[1].first

\* C11 witness: the callback has handled two items listed in descending
\* order and made the first of them, the higher index, the active one.
C11_Witness ==
    /\ lastViewable = <<[len |-> 2, first |-> 1, lowest |-> 0]>>
    /\ currentVideoIndex = 1
    /\ Mounted(0) /\ Mounted(1)

\* A list without a first index that has the summary `sum`.  A callback
\* acts on such a list only through what its summary keeps, so every
\* callback step made with a list of that summary is a step made with
\* this list.
ListOf(sum) ==
    [k \in 1 .. sum.len |-> IF k = 1 THEN NoIndex ELSE sum.lowest]

\* C12: a callback whose list is empty, or whose first item has no index,
\* leaves currentVideoIndex as it was, sends no command to any player and
\* changes no player's state.
C12_EmptyKeepsIndex ==
    [][(/\ lastViewable' # << >>
        /\ lastViewable'[1].first = NoIndex
        /\ OnViewableItemsChanged(ListOf(lastViewable'[1]))) =>
            /\ currentVideoIndex' = currentVideoIndex
            /\ cmds' = cmds
            /\ playing' = playing]_vars

\* C12 witness: the last callback had an empty list, after the second card
\* had become active and started playing.
C12_Witness ==
    /\ lastViewable = <<[len |-> 0, first |-> NoIndex, lowest |-> NoIndex]>>
    /\ currentVideoIndex = 1
    /\ playing[1] = "Playing"

\* C16: once the feed fetch has failed, by an error value or by a rejected
\* query, the screen is not loading, shows zero items and has not crashed.
C16_FailedFetchEndsEmpty ==
    fetched \in {"error", "throw"} => (~loading /\ videos = 0 /\ ~crashed)

\* C18: when the insert or delete of a toggle that ran alone on a mounted
\* card throws, nothing faults, and hasLiked and localLikeCount are back at
\* the values they had before the toggle.
C18_ThrowIsRolledBack ==
    [][\A i \in Cards : \A k \in 1 .. MaxInFlight :
          (LikeResponse(i, k, "throw") /\ requests[i][k].live
              /\ requests[i][k].alone) =>
              /\ ~crashed'
              /\ hasLiked'[i] = requests[i][k].liked
              /\ localLikeCount'[i] = requests[i][k].preCount]_vars

\* C19 as stated: after a lookup that ends in not-found, in another error
\* or in an exception, hasLiked is false, and neither count has changed.
C19_FailedLookupIsFalse ==
    [][\A i \in Cards :
          (LookupResponse(i) /\ lookup[i] \in {"PGRST116", "error", "throw"}) =>
              /\ hasLiked'[i] = FALSE
              /\ localLikeCount' = localLikeCount
              /\ localCommentCount' = localCommentCount]_vars

\* C19 amended: a lookup that ends in another error or in an exception
\* leaves hasLiked as it is (false unless a toggle has flipped it since the
\* card mounted); a not-found result sets it to false; neither count
\* changes.
C19_FailedLookupKeeps ==
    [][\A i \in Cards :
          LookupResponse(i) =>
              /\ lookup[i] \in {"error", "throw"} => hasLiked'[i] = hasLiked[i]
              /\ (lookup[i] \in {"error", "throw"} /\ toggles = 0)
                    => hasLiked'[i] = FALSE
              /\ lookup[i] = "PGRST116" => hasLiked'[i] = FALSE
              /\ lookup[i] \in {"PGRST116", "error", "throw"} =>
                    /\ localLikeCount' = localLikeCount
                    /\ localCommentCount' = localCommentCount]_vars

\* C19 witness: the lookup of a mounted card has ended in an error after
\* a toggle, and the card still shows the like.
C19_Witness ==
    \E i \in Cards :
        /\ Mounted(i) /\ lookup[i] = "done" /\ lastLookup[i] = "error"
        /\ hasLiked[i] /\ toggles = 1

\* C20: on a mounted card whose lookup has been answered by the store and
\* handled, and none of whose inserts or deletes is still pending, hasLiked
\* says whether the store holds the like row of this user and post.
C20_SettledMatchesStore ==
    \A i \in Cards :
        (Mounted(i) /\ lookup[i] = "done"
            /\ lastLookup[i] \in {"found", "PGRST116"}
            /\ requests[i] = << >>) => hasLiked[i] = store[i]

\* C17: whenever a toggle is carried out (a request is sent), the request
\* is an insert exactly if hasLiked is true after the flip, and
\* localLikeCount has moved by +1 if hasLiked is now true and by -1 if it
\* is now false.
C17_MutationMatchesFlip ==
    [][\A i \in Cards :
          Len(requests'[i]) = Len(requests[i]) + 1 =>
              /\ (~requests'[i][Len(requests'[i])].liked) = hasLiked'[i]
              /\ localLikeCount'[i] - localLikeCount[i]
                    = (IF hasLiked'[i] THEN 1 ELSE -1)]_vars

\* C13: every mounted card has exactly one open comments channel for its
\* post, and a post whose card is not mounted has none.  (A card shows the
\* same post for as long as it is mounted: videos is set once and the list
\* keys its cards by item.id.)
C13_OneChannelPerMountedCard ==
    \A p \in Cards : channels[p] = (IF Mounted(p) THEN 1 ELSE 0)

\* C13 witness: the card has mounted, unmounted with a request on the wire
\* and mounted again; it holds one channel.
C13_Witness ==
    /\ Mounted(0) /\ channels[0] = 1
    /\ requests[0] # << >> /\ ~requests[0][1].live

\* C14: a comment announced for post p while p's card is mounted adds
\* exactly 1 to that card's localCommentCount and changes nothing else of
\* any card; a comment announced for a post without a mounted card changes
\* no card's state.
C14_CommentAddsOne ==
    [][\A p \in Cards :
          CommentInserted(p) =>
              /\ localCommentCount' = [localCommentCount EXCEPT
                     ![p] = IF Mounted(p) THEN localCommentCount[p] + 1
                            ELSE localCommentCount[p]]
              /\ <<userReq, currentUserId, lookup, hasLiked, localLikeCount,
                    isCommentsModalVisible, requests>>'
                  = <<userReq, currentUserId, lookup, hasLiked, localLikeCount,
                      isCommentsModalVisible, requests>>
              /\ <<screenVars, playerVars, mountVars, remoteVars>>'
                  = <<screenVars, playerVars, mountVars, remoteVars>>]_vars

\* C14 witness: the mounted card has counted a comment, and the last
\* announcement was for a post without a mounted card.
C14_Witness ==
    /\ Mounted(0) /\ localCommentCount[0] = 1
    /\ lastComment = <<[post |-> 1, mounted |-> FALSE]>>

\* C15: unmounting a card leaves its requests on the wire, and the response
\* to a request whose card has unmounted since changes neither hasLiked nor
\* localLikeCount and faults nothing, whatever the response is.
C15_LateResponseDiscarded ==
    [][\A i \in Cards :
          /\ Unmount(i) => Len(requests'[i]) = Len(requests[i])
          /\ \A k \in 1 .. MaxInFlight : \A o \in {"ok", "error", "throw"} :
                (LikeResponse(i, k, o) /\ ~requests[i][k].live) =>
                    /\ hasLiked' = hasLiked
                    /\ localLikeCount' = localLikeCount
                    /\ crashed' = crashed]_vars

\* C15 witness: the only toggle of the run was sent, the card unmounted,
\* and the failure of the insert has been reported since; the state the
\* card left behind still has the optimistic values.
C15_Witness ==
    /\ 0 \in detached /\ toggles = 1 /\ requests[0] = << >>
    /\ alert = "Error" /\ ~store[0]
    /\ hasLiked[0] /\ localLikeCount[0] = seed[0] + 1

====
